---- MODULE Spec2Model ----
(***************************************************************************)
(* Model of osebx.py: a linear script that binds a ticker, downloads its   *)
(* daily price table from the data provider, writes the table to           *)
(* osebx_prices.csv and prints the first rows.                             *)
(*                                                                         *)
(* Text is modelled as a sequence of one-character strings, so that the    *)
(* CSV written by to_csv is a real serialisation that the properties have  *)
(* to parse back.  Dates are integers YYYYMMDD; cell values are naturals.   *)
(* The process is run MaxRuns times over one file system, so that          *)
(* properties about successive runs can be stated.                         *)
(***************************************************************************)
EXTENDS Integers, Sequences, FiniteSets, TLC

VARIABLES
    pc,         \* position of the running process in the module body
    ticker,     \* the module-level name `ticker` (line 5)
    osebx,      \* the module-level name `osebx` (line 8)
    fs,         \* the file system: path -> [exists, data]
    stdout,     \* lines printed by this process, each a sequence of cells
    exitStatus, \* -1 while running, 0 after a clean exit, 1 after a traceback
    failedAt,   \* the statement whose exception ended the process, or "none"
    requests,   \* requests this process has issued to the provider
    steps,      \* statements this process has started, in order
    provider,   \* the data provider's state
    run,        \* number of processes started so far
    prev        \* whether the previous process exited cleanly, the table it
                \* held, and the CSV file as this process found it

vars == <<pc, ticker, osebx, fs, stdout, exitStatus, failedAt, requests,
          steps, provider, run, prev>>

----------------------------------------------------------------------------
(* Bounds of the model *)

MaxRuns == 2

----------------------------------------------------------------------------
(* Text helpers *)

Digits == <<"0", "1", "2", "3", "4", "5", "6", "7", "8", "9">>

DigitVal(c) == CHOOSE i \in 0..9 : Digits[i + 1] = c

RECURSIVE FormatNat(_)
FormatNat(n) ==
    IF n < 10 THEN <<Digits[n + 1]>>
    ELSE FormatNat(n \div 10) \o <<Digits[(n % 10) + 1]>>

Pad2(n) == <<Digits[(n \div 10) + 1], Digits[(n % 10) + 1]>>

\* A pandas Timestamp index value rendered as YYYY-MM-DD.
FormatDate(d) ==
    FormatNat(d \div 10000) \o <<"-">> \o Pad2((d \div 100) % 100)
        \o <<"-">> \o Pad2(d % 100)

\* The date strings passed to the provider client, read as YYYYMMDD.
ParseDate(s) ==
    (DigitVal(s[1]) * 1000 + DigitVal(s[2]) * 100 + DigitVal(s[3]) * 10
        + DigitVal(s[4])) * 10000
    + (DigitVal(s[6]) * 10 + DigitVal(s[7])) * 100
    + (DigitVal(s[9]) * 10 + DigitVal(s[10]))

RECURSIVE Join(_, _)
Join(fields, sep) ==
    IF fields = <<>> THEN <<>>
    ELSE IF Len(fields) = 1 THEN fields[1]
    ELSE fields[1] \o sep \o Join(Tail(fields), sep)

----------------------------------------------------------------------------
(* Literals of the script *)

TickerLiteral == "OSEBX.OL"

StartLiteral == <<"2", "0", "1", "5", "-", "0", "3", "-", "0", "1">>

EndLiteral == <<"2", "0", "2", "5", "-", "0", "3", "-", "0", "1">>

IntervalLiteral == "1d"

CsvPath == "osebx_prices.csv"

\* DataFrame.head() is called without an argument: pandas' default n.
HeadN == 5

----------------------------------------------------------------------------
(* The provider and its client *)

IndexName == <<"D", "a", "t", "e">>

ColOpen == <<"O", "p", "e", "n">>
ColHigh == <<"H", "i", "g", "h">>
ColLow == <<"L", "o", "w">>
ColClose == <<"C", "l", "o", "s", "e">>
ColAdjClose == <<"A", "d", "j", " ", "C", "l", "o", "s", "e">>
ColVolume == <<"V", "o", "l", "u", "m", "e">>

\* The column sets and orders the provider's client is known to return.
Layouts ==
    { <<ColOpen, ColHigh, ColLow, ColClose, ColAdjClose, ColVolume>>,
      <<ColClose, ColHigh, ColLow, ColOpen, ColVolume>> }

\* Dates the provider may hold rows for, ascending; they straddle both ends
\* of the requested range.
Calendar ==
    <<20150227, 20150301, 20150302, 20150303, 20150304, 20150305, 20150306,
      20250228, 20250301, 20250303>>

ListedTicker == "OSEBX.OL"

\* How much of the calendar the provider holds (a prefix of it): nothing, only
\* a date before the range, then 3, 5 and 7 dates of the range, then also the
\* dates on and after its end.
Histories == {0, 1, 4, 6, 8, Len(Calendar)}

Providers == [up : BOOLEAN, layout : Layouts, hist : Histories]

\* The value the provider holds for a date and a column.
Quote(d, c) == (d % 100) * 10 + c

NoTable == [defined |-> FALSE, columns |-> <<>>, rows |-> <<>>]

RECURSIVE SelectRows(_, _, _, _)
SelectRows(p, lo, hi, i) ==
    IF i > p.hist THEN <<>>
    ELSE LET d == Calendar[i]
             rest == SelectRows(p, lo, hi, i + 1)
         IN  IF lo <= d /\ d < hi
             THEN <<[date |-> d,
                     vals |-> [c \in 1..Len(p.layout) |-> Quote(d, c)]]>>
                  \o rest
             ELSE rest

\* Variant: the end date is mistyped as 2025-03-10.
RequestLateEnd ==
    [ticker |-> ticker, start |-> StartLiteral,
     end |-> <<"2", "0", "2", "5", "-", "0", "3", "-", "1", "0">>,
     interval |-> IntervalLiteral]

\* The request of line 8.
Request ==
    [ticker |-> ticker, start |-> StartLiteral, end |-> EndLiteral,
     interval |-> IntervalLiteral]

\* The client raises when the provider cannot serve the request.
RequestFails(p, req) ==
    \/ ~p.up
    \/ req.ticker # ListedTicker
    \/ req.interval # "1d"

\* The table the client returns: the rows with start <= date < end.
Download(p, req) ==
    [defined |-> TRUE,
     columns |-> p.layout,
     rows |-> SelectRows(p, ParseDate(req.start), ParseDate(req.end), 1)]

----------------------------------------------------------------------------
(* DataFrame.to_csv, DataFrame.head and print *)

Min(a, b) == IF a < b THEN a ELSE b

\* Variant: the last HeadN rows (DataFrame.tail) instead of the first.
headFromEnd(t) ==
    [t EXCEPT !.rows =
        SubSeq(t.rows, Len(t.rows) - Min(HeadN, Len(t.rows)) + 1, Len(t.rows))]

\* DataFrame.head(): the first HeadN rows, same columns.
head(t) == [t EXCEPT !.rows = SubSeq(t.rows, 1, Min(HeadN, Len(t.rows)))]

Newline == <<"\n">>

Comma == <<",">>

\* Variant: the header names the columns but not the index (index_label=False).
CsvHeaderLineNoIndex(t) == Join(t.columns, Comma) \o Newline

CsvHeaderLine(t) == Join(<<IndexName>> \o t.columns, Comma) \o Newline

CsvRowLine(r) ==
    Join(<<FormatDate(r.date)>> \o [i \in 1..Len(r.vals) |-> FormatNat(r.vals[i])],
         Comma) \o Newline

RECURSIVE CsvRowLines(_)
CsvRowLines(rows) ==
    IF rows = <<>> THEN <<>>
    ELSE CsvRowLine(rows[1]) \o CsvRowLines(Tail(rows))

\* Variant: only the previewed rows are serialised (osebx.head().to_csv).
ToCsvOfHead(t) == CsvHeaderLine(t) \o CsvRowLines(head(t).rows)

\* The text to_csv produces for a table (header=True, index=True).
ToCsv(t) == CsvHeaderLine(t) \o CsvRowLines(t.rows)

\* Variant: the file is opened in append mode (mode="a").
OverwriteAppend(old, text) == [exists |-> TRUE, data |-> old.data \o text]

\* Variant: the file is opened for update without truncation (mode="r+"), so
\* the tail of a longer old file survives.
OverwriteInPlace(old, text) ==
    [exists |-> TRUE,
     data |-> text \o SubSeq(old.data, Len(text) + 1, Len(old.data))]

\* open(path, "w") followed by a complete write: the old content is gone.
Overwrite(old, text) == [exists |-> TRUE, data |-> text]

EmptyFrameCell ==
    <<"E", "m", "p", "t", "y", " ", "D", "a", "t", "a", "F", "r", "a", "m", "e">>

ColumnsCell == <<"C", "o", "l", "u", "m", "n", "s", ":">>

IndexCell == <<"I", "n", "d", "e", "x", ":">>

\* The default rendering of a DataFrame, as lines of cells (column padding
\* is not modelled).
Render(t) ==
    IF t.rows = <<>>
    THEN << <<EmptyFrameCell>>, <<ColumnsCell>> \o t.columns, <<IndexCell>> >>
    ELSE << t.columns, <<IndexName>> >>
         \o [i \in 1..Len(t.rows) |->
                <<FormatDate(t.rows[i].date)>>
                \o [j \in 1..Len(t.rows[i].vals) |-> FormatNat(t.rows[i].vals[j])]]

----------------------------------------------------------------------------
(* The file system *)

OtherPath == "notes.txt"

Paths == {CsvPath, OtherPath}

Absent == [exists |-> FALSE, data |-> <<>>]

StaleText == <<"s", "t", "a", "l", "e", "\n">>

NotesText == <<"n", "o", "t", "e", "s", "\n">>

InitialCsvFiles == {Absent, [exists |-> TRUE, data |-> StaleText]}

----------------------------------------------------------------------------
(* The process *)

Init ==
    /\ pc = "start"
    /\ ticker = ""
    /\ osebx = NoTable
    /\ fs \in {[p \in Paths |->
                    IF p = CsvPath THEN f ELSE [exists |-> TRUE, data |-> NotesText]] :
                 f \in InitialCsvFiles}
    /\ stdout = <<>>
    /\ exitStatus = -1
    /\ failedAt = "none"
    /\ requests = <<>>
    /\ steps = <<>>
    /\ provider \in Providers
    /\ run = 1
    /\ prev = [ok |-> FALSE, table |-> NoTable, file |-> fs[CsvPath]]

\* Statements follow each other in the order of the module body.
AfterBind == "fetch"

\* Variant: the preview is printed before the file is written.
AfterFetchPrintFirst == "print"

AfterFetch == "write"

AfterWrite == "print"

AfterPrint == "done"

\* An uncaught exception: traceback on stderr, exit status 1.
Raise(at) ==
    /\ pc' = "failed"
    /\ exitStatus' = 1
    /\ failedAt' = at

\* line 5: ticker = "OSEBX.OL"
BindTicker ==
    /\ pc = "start"
    /\ ticker' = TickerLiteral
    /\ pc' = AfterBind
    /\ UNCHANGED <<osebx, fs, stdout, exitStatus, failedAt, requests, steps,
                   provider, run, prev>>

\* line 8: the call is issued and the process blocks on it.
FetchCall ==
    /\ pc = "fetch"
    /\ requests' = Append(requests, Request)
    /\ steps' = Append(steps, "fetch")
    /\ pc' = "fetching"
    /\ UNCHANGED <<ticker, osebx, fs, stdout, exitStatus, failedAt, provider,
                   run, prev>>

\* line 8: the call returns the whole table, which is bound to osebx.
FetchReturn ==
    /\ pc = "fetching"
    /\ ~RequestFails(provider, requests[Len(requests)])
    /\ osebx' = Download(provider, requests[Len(requests)])
    /\ pc' = AfterFetch
    /\ UNCHANGED <<ticker, fs, stdout, exitStatus, failedAt, requests, steps,
                   provider, run, prev>>

\* Variant: a failed request is swallowed and an empty table is used.
FetchRaiseSwallowed ==
    /\ pc = "fetching"
    /\ RequestFails(provider, requests[Len(requests)])
    /\ osebx' = [defined |-> TRUE, columns |-> provider.layout, rows |-> <<>>]
    /\ pc' = AfterFetch
    /\ UNCHANGED <<ticker, fs, stdout, exitStatus, failedAt, requests, steps,
                   provider, run, prev>>

\* Variant: a failed request is issued again.
FetchRaiseRetry ==
    /\ pc = "fetching"
    /\ RequestFails(provider, requests[Len(requests)])
    /\ pc' = "fetch"
    /\ UNCHANGED <<ticker, osebx, fs, stdout, exitStatus, failedAt, requests,
                   steps, provider, run, prev>>

\* line 8: the call raises; nothing catches it.
FetchRaise ==
    /\ pc = "fetching"
    /\ RequestFails(provider, requests[Len(requests)])
    /\ Raise("fetch")
    /\ UNCHANGED <<ticker, osebx, fs, stdout, requests, steps, provider, run,
                   prev>>

\* line 11: to_csv writes the whole table to the fixed path.
WriteCsv ==
    /\ pc = "write"
    /\ steps' = Append(steps, "write")
    /\ fs' = [fs EXCEPT ![CsvPath] = Overwrite(fs[CsvPath], ToCsv(osebx))]
    /\ pc' = AfterWrite
    /\ UNCHANGED <<ticker, osebx, stdout, exitStatus, failedAt, requests,
                   provider, run, prev>>

\* Variant: the write error is caught and the script carries on to the preview.
WriteRaiseCaught ==
    /\ pc = "write"
    /\ steps' = Append(steps, "write")
    /\ fs' = fs
    /\ failedAt' = "write"
    /\ pc' = AfterWrite
    /\ UNCHANGED <<ticker, osebx, stdout, exitStatus, requests, provider, run,
                   prev>>

\* line 11: to_csv raises.  Either the file could not be opened (it is left
\* as it was) or the write broke off after the file was truncated (a proper
\* prefix of the text is left).
WriteRaise ==
    /\ pc = "write"
    /\ steps' = Append(steps, "write")
    /\ \/ fs' = fs
       \/ \E k \in {0, Len(ToCsv(osebx)) \div 2} :
            fs' = [fs EXCEPT ![CsvPath] =
                      [exists |-> TRUE, data |-> SubSeq(ToCsv(osebx), 1, k)]]
    /\ Raise("write")
    /\ UNCHANGED <<ticker, osebx, stdout, requests, provider, run, prev>>

\* line 14: print(osebx.head())
PrintHead ==
    /\ pc = "print"
    /\ steps' = Append(steps, "print")
    /\ stdout' = stdout \o Render(head(osebx))
    /\ pc' = AfterPrint
    /\ exitStatus' = 0
    /\ UNCHANGED <<ticker, osebx, fs, failedAt, requests, provider, run, prev>>

\* line 14: the console write raises (closed or broken standard output).
PrintRaise ==
    /\ pc = "print"
    /\ steps' = Append(steps, "print")
    /\ Raise("print")
    /\ UNCHANGED <<ticker, osebx, fs, stdout, requests, provider, run, prev>>

\* The script is started again: a fresh process over the same file system.
\* The provider may serve different data by then.
StartAgain ==
    /\ pc \in {"done", "failed"}
    /\ run < MaxRuns
    /\ run' = run + 1
    /\ prev' = [ok |-> pc = "done", table |-> osebx, file |-> fs[CsvPath]]
    /\ provider' \in Providers
    /\ pc' = "start"
    /\ ticker' = ""
    /\ osebx' = NoTable
    /\ stdout' = <<>>
    /\ exitStatus' = -1
    /\ failedAt' = "none"
    /\ requests' = <<>>
    /\ steps' = <<>>
    /\ UNCHANGED fs

Next ==
    \/ BindTicker
    \/ FetchCall
    \/ FetchReturn
    \/ FetchRaise
    \/ WriteCsv
    \/ WriteRaise
    \/ PrintHead
    \/ PrintRaise
    \/ StartAgain

Spec == Init /\ [][Next]_vars

----------------------------------------------------------------------------
(* Reading the outputs back *)

\* The positions of the character sep in text, and the k-th of them.
SepPositions(text, sep) == {i \in 1..Len(text) : text[i] = sep}

NthOf(S, k) == CHOOSE p \in S : Cardinality({q \in S : q <= p}) = k

\* The pieces of text between occurrences of the character sep.
SplitOn(text, sep) ==
    LET S == SepPositions(text, sep)
        n == Cardinality(S)
        lo(k) == IF k = 1 THEN 1 ELSE NthOf(S, k - 1) + 1
        hi(k) == IF k = n + 1 THEN Len(text) ELSE NthOf(S, k) - 1
    IN  [k \in 1..(n + 1) |-> SubSeq(text, lo(k), hi(k))]

\* The lines of a text; a final newline ends the last line.
Lines(text) ==
    LET pieces == SplitOn(text, "\n")
    IN  IF pieces[Len(pieces)] = <<>> THEN SubSeq(pieces, 1, Len(pieces) - 1)
        ELSE pieces

\* The records of a CSV text: each line split into its fields.
CsvRecords(text) ==
    LET ls == Lines(text) IN [i \in 1..Len(ls) |-> SplitOn(ls[i], ",")]

CsvFile == fs[CsvPath]

\* The data rows of the CSV file: every record after the header row.
CsvDataRows ==
    LET recs == CsvRecords(CsvFile.data) IN SubSeq(recs, 2, Len(recs))

\* The rows of the preview on standard output: what follows the two heading
\* lines, or nothing when the empty-table notice was printed.
PrintedRows ==
    IF stdout = <<>> \/ stdout[1] = <<EmptyFrameCell>> THEN <<>>
    ELSE SubSeq(stdout, 3, Len(stdout))

IsPrefix(a, b) == Len(a) <= Len(b) /\ a = SubSeq(b, 1, Len(a))

Started(step) == \E i \in 1..Len(steps) : steps[i] = step

Count(step) == Cardinality({i \in 1..Len(steps) : steps[i] = step})

\* The write statement of this process has run to completion.
WriteDone == Started("write") /\ failedAt # "write"

\* The fetch call of this process has come back, one way or the other.
FetchOver == Len(requests) > 0 /\ pc # "fetching"

ExitedNonZero == pc = "failed" /\ exitStatus > 0

----------------------------------------------------------------------------
(* Properties *)

C2_RowCount ==
    WriteDone => Len(CsvDataRows) = Len(osebx.rows)

\* A clean exit with more rows than the preview shows.
C2_Witness == pc = "done" /\ Len(osebx.rows) > HeadN /\ Len(CsvDataRows) > HeadN

\* C3  Column contract: once the write has completed, the header row of the
\* CSV file is the index name followed by the table's columns, in order.
C3_ColumnContract ==
    WriteDone =>
        /\ Len(CsvRecords(CsvFile.data)) >= 1
        /\ CsvRecords(CsvFile.data)[1] = <<IndexName>> \o osebx.columns

\* A written file for the five-column layout.
C3_Witness ==
    /\ WriteDone
    /\ Len(osebx.columns) = 5
    /\ Len(CsvRecords(CsvFile.data)[1]) = 6

\* C4  Overwrite idempotence: when the previous run exited cleanly and this
\* run fetched the same table, the CSV file after this run's write is
\* identical to the file the previous run left.
C4_OverwriteIdempotence ==
    (WriteDone /\ prev.ok /\ prev.table = osebx) => CsvFile = prev.file

\* Two clean runs in succession over the same non-empty table.
C4_Witness ==
    /\ run = 2
    /\ pc = "done"
    /\ prev.ok
    /\ prev.table = osebx
    /\ Len(osebx.rows) > 0

\* C5  Preview consistency: after a clean exit the printed rows are at most
\* HeadN and are a prefix, in order, of the data rows of the CSV file.
C5_PreviewConsistency ==
    pc = "done" =>
        /\ Len(PrintedRows) <= HeadN
        /\ Len(PrintedRows) = Min(HeadN, Len(CsvDataRows))
        /\ IsPrefix(PrintedRows, CsvDataRows)

\* A clean exit where the preview is shorter than the file.
C5_Witness ==
    /\ pc = "done"
    /\ Len(PrintedRows) = HeadN
    /\ Len(CsvDataRows) > HeadN

\* C6  Date range: the configured start date precedes the configured end
\* date, and every data row of the written CSV file carries a date from
\* 2015-03-01 (inclusive) to 2025-03-01 (exclusive).
C6_DateRange ==
    /\ ParseDate(StartLiteral) = 20150301
    /\ ParseDate(EndLiteral) = 20250301
    /\ ParseDate(StartLiteral) < ParseDate(EndLiteral)
    /\ WriteDone =>
          \A i \in 1..Len(CsvDataRows) :
              /\ 20150301 <= ParseDate(CsvDataRows[i][1])
              /\ ParseDate(CsvDataRows[i][1]) < 20250301

\* A written file while the provider holds dates before the start and on and
\* after the end of the range; the file starts on the start date itself.
C6_Witness ==
    /\ WriteDone
    /\ provider.hist = Len(Calendar)
    /\ Len(CsvDataRows) > 0
    /\ ParseDate(CsvDataRows[1][1]) = 20150301

\* C7  Step ordering: the statements started by a process are a prefix of
\* fetch, write, print; the write starts only with the fetched table bound,
\* and the print starts only after the write has completed.
C7_StepOrdering ==
    /\ IsPrefix(steps, <<"fetch", "write", "print">>)
    /\ Started("write") => (osebx.defined /\ FetchOver)
    /\ Started("print") => (WriteDone /\ CsvFile.exists)
    /\ pc = "done" => steps = <<"fetch", "write", "print">>

\* A clean exit.
C7_Witness == pc = "done" /\ Len(steps) = 3 /\ exitStatus = 0

\* C8  Unhandled failures: a failure at any statement terminates the process
\* at that statement with a non-zero status; no later statement has started
\* (a failed write leaves nothing printed), and from then on the process does
\* nothing more: only a new run of the script changes the state.
C8_UnhandledFailure ==
    /\ [](failedAt # "none" =>
            /\ ExitedNonZero
            /\ steps # <<>>
            /\ steps[Len(steps)] = failedAt
            /\ (failedAt = "fetch" => ~Started("write") /\ ~Started("print"))
            /\ (failedAt = "write" => ~Started("print"))
            /\ (failedAt \in {"fetch", "write"} => stdout = <<>>))
    /\ [][pc = "failed" => run' = run + 1]_vars

\* A write that failed after the fetch succeeded.
C8_Witness == failedAt = "write" /\ osebx.defined /\ Len(osebx.rows) > 0

\* C9  One fetch per run: a process issues at most one request, for the
\* constant ticker, date range and interval; a failed request is not issued
\* again; and the table a process works on is the provider's answer to its
\* own request, not the table of an earlier run.
C9_SingleFetch ==
    /\ Len(requests) <= 1
    /\ Started("fetch") =>
          /\ Len(requests) = 1
          /\ requests[1].ticker = "OSEBX.OL"
          /\ ParseDate(requests[1].start) = 20150301
          /\ ParseDate(requests[1].end) = 20250301
          /\ requests[1].interval = "1d"
    /\ Count("fetch") <= 1
    /\ osebx.defined =>
          /\ Len(requests) = 1
          /\ osebx = Download(provider, requests[1])
    /\ failedAt = "fetch" => ~osebx.defined

\* A failed fetch in a run that follows a clean run with data.
C9_Witness ==
    /\ run = 2
    /\ prev.ok
    /\ Len(prev.table.rows) > 0
    /\ failedAt = "fetch"
    /\ Len(requests) = 1

\* C10  Output file lifecycle: a process starts the write at most once; once
\* the write has completed the CSV file holds the serialised fetched table
\* and nothing else, whatever the file held before; no other file is created
\* or changed.
C10_FileLifecycle ==
    /\ Count("write") <= 1
    /\ WriteDone =>
          /\ Count("write") = 1
          /\ CsvFile = [exists |-> TRUE, data |-> ToCsv(osebx)]
          /\ Len(CsvDataRows) = Len(osebx.rows)
    /\ DOMAIN fs = Paths
    /\ fs[OtherPath] = [exists |-> TRUE, data |-> NotesText]

\* A written file that is shorter than the file the process found.
C10_Witness ==
    /\ WriteDone
    /\ prev.file.exists
    /\ Len(prev.file.data) > Len(CsvFile.data)
    /\ run = 2

====
